---- MODULE Spec2Model ----
(***************************************************************************)
(* ShakeToFindCursor (src/main.cpp): the cursor scaler                     *)
(* CursorUtils::ScaleCursor, the shake detector MouseMoveDetector, the     *)
(* enlargement controller CursorState and the event glue of                *)
(* ShakeToFindCursor (MouseProc, WM_TIMER, teardown).                      *)
(*                                                                         *)
(* Time: std::chrono::high_resolution_clock is finer than a millisecond.   *)
(* The clock is an integer count of clock ticks, TicksPerMs ticks to the   *)
(* millisecond; duration_cast<milliseconds> truncates toward zero.          *)
(* Speeds are double in the source; here they are fixed point, in          *)
(* hundredths of a pixel per second (SpeedScale).                          *)
(***************************************************************************)
EXTENDS Integers, Sequences, FiniteSets, TLC

VARIABLES
  tracking_mode_,        \* ShakeToFindCursor::tracking_mode_  "kHook" | "kPolling"
  now,                   \* the reading of high_resolution_clock, in clock ticks
  last_pos_,             \* MouseMoveDetector::last_pos_
  last_time_,            \* MouseMoveDetector::last_time_
  movement_history_,     \* MouseMoveDetector::movement_history_ (deque<Movement>)
  is_enlarged_,          \* CursorState::is_enlarged_
  enlarge_start_time_,   \* CursorState::enlarge_start_time_
  original_cursor_,      \* CursorState::original_cursor_ : handle value and releases
  large_cursor_,         \* CursorState::large_cursor_    : handle value and releases
  system_cursor,         \* host: what OCR_NORMAL currently shows
  live_copies,           \* host: temporary CopyCursor results neither installed nor destroyed
  op,                    \* the handler that made the last step
  ret,                   \* what ShouldEnlargeCursor returned in the last step
  host_log,              \* host API calls issued by the last step, in order
  calls,                 \* number of ShouldEnlargeCursor calls so far
  samples,               \* number of Movements pushed so far
  teardowns,             \* number of times ~CursorState has run
  scale_call,            \* CursorUtils::ScaleCursor: arguments and host outcomes of the call
  new_cursor,            \* CursorUtils::ScaleCursor: the HCURSOR it returned
  running_,              \* ShakeToFindCursor::running_ (std::atomic<bool>)
  run_pc,                \* where the main thread is: before Run, in Run, returned
  msg,                   \* Run's local MSG msg: the message last retrieved
  posted,                \* the posted messages in the main thread's queue, oldest first
  timer_due,             \* the timer of hwnd_ has elapsed: a WM_TIMER is pending
  stop_pc,               \* where the console-control handler thread is in Stop
  ctrl_events,           \* number of Ctrl+C / Ctrl+Break events delivered
  tray_clicks,           \* number of right-clicks on the tray icon
  stop_log               \* the Stop calls made: caller, and where Run was

detector   == <<last_pos_, last_time_, movement_history_>>
controller == <<is_enlarged_, enlarge_start_time_, original_cursor_,
                large_cursor_, system_cursor, live_copies>>
scaler     == <<scale_call, new_cursor>>
runner     == <<running_, run_pc, msg, posted, timer_due, stop_pc,
                ctrl_events, tray_clicks, stop_log>>
vars == <<tracking_mode_, now, last_pos_, last_time_, movement_history_,
          is_enlarged_, enlarge_start_time_, original_cursor_, large_cursor_,
          system_cursor, live_copies, op, ret, host_log, calls, samples,
          teardowns, scale_call, new_cursor, running_, run_pc, msg, posted,
          timer_due, stop_pc, ctrl_events, tray_clicks, stop_log>>

----------------------------------------------------------------------------
(* CursorConfig *)
kScaleFactor == 3
kHistorySize == 10
kMinDirectionChanges == 5
kMinMovementSpeed == 800
kMaxTimeWindow == 500
kEnlargeDurationMs == 500

(* Model bounds *)
TicksPerMs == 2
MaxCalls == 11
MaxTeardowns == 2
MaxTimeMs == 1100
MaxHotspot == 2
MaxCtrlEvents == 2
MaxTrayClicks == 2

SpeedScale == 100

Ms(n) == n * TicksPerMs

Min(a, b) == IF a < b THEN a ELSE b

\* std::chrono::duration_cast<std::chrono::milliseconds>(d).count()
DurationCastMs(d) ==
  IF d >= 0 THEN d \div TicksPerMs ELSE -((-d) \div TicksPerMs)

----------------------------------------------------------------------------
(* MouseMoveDetector::DetectShakePattern *)

RECURSIVE SqrtSearch(_, _, _)
SqrtSearch(n, lo, hi) ==
  IF lo >= hi THEN lo
  ELSE LET mid == (lo + hi + 1) \div 2
       IN IF mid * mid <= n THEN SqrtSearch(n, mid, hi)
          ELSE SqrtSearch(n, lo, mid - 1)

\* std::sqrt, in units of 1/SpeedScale pixel
Sqrt(n) == SqrtSearch(n * SpeedScale * SpeedScale, 0, 46340)

Direction(d) == IF d > 0 THEN 1 ELSE IF d < 0 THEN -1 ELSE 0

\* the loop-carried locals before the first iteration
ShakeLocals0 ==
  [direction_changes |-> 0, total_speed |-> 0, total_time |-> 0,
   last_x_dir |-> 0, last_y_dir |-> 0]

\* one iteration of the for loop over movement_history_
ShakeLoopBody(acc, mov) ==
  LET curr_x_dir == Direction(mov.dx)
      curr_y_dir == Direction(mov.dy)
      xchg == IF acc.last_x_dir # 0 /\ curr_x_dir # 0 /\ acc.last_x_dir # curr_x_dir
              THEN 1 ELSE 0
      ychg == IF acc.last_y_dir # 0 /\ curr_y_dir # 0 /\ acc.last_y_dir # curr_y_dir
              THEN 1 ELSE 0
      distance == Sqrt(mov.dx * mov.dx + mov.dy * mov.dy)
      speed == IF mov.dt > 0 THEN (distance * 1000) \div mov.dt ELSE 0
  IN [direction_changes |-> acc.direction_changes + xchg + ychg,
      total_speed |-> acc.total_speed + speed,
      total_time |-> acc.total_time + mov.dt,
      last_x_dir |-> curr_x_dir,
      last_y_dir |-> curr_y_dir]

RECURSIVE ShakeLoop(_, _, _)
ShakeLoop(h, i, acc) ==
  IF i > Len(h) THEN acc ELSE ShakeLoop(h, i + 1, ShakeLoopBody(acc, h[i]))

\* variant: the cold-start test one short (size() < kHistorySize - 1)
DetectShakePattern_ShortWindow(h) ==
  IF Len(h) < kHistorySize - 1 THEN FALSE
  ELSE LET acc == ShakeLoop(h, 1, ShakeLocals0)
       IN IF acc.total_time > kMaxTimeWindow THEN FALSE
          ELSE LET avg_speed == acc.total_speed \div Len(h)
               IN acc.direction_changes >= kMinDirectionChanges
                  /\ avg_speed >= kMinMovementSpeed * SpeedScale

\* variant: the time-window test off by one (total_time > kMaxTimeWindow + 1)
DetectShakePattern_SlackWindow(h) ==
  IF Len(h) < kHistorySize THEN FALSE
  ELSE LET acc == ShakeLoop(h, 1, ShakeLocals0)
       IN IF acc.total_time > kMaxTimeWindow + 1 THEN FALSE
          ELSE LET avg_speed == acc.total_speed \div Len(h)
               IN acc.direction_changes >= kMinDirectionChanges
                  /\ avg_speed >= kMinMovementSpeed * SpeedScale

\* variant: a window of exactly kMaxTimeWindow is too slow (total_time >=)
DetectShakePattern_StrictWindow(h) ==
  IF Len(h) < kHistorySize THEN FALSE
  ELSE LET acc == ShakeLoop(h, 1, ShakeLocals0)
       IN IF acc.total_time >= kMaxTimeWindow THEN FALSE
          ELSE LET avg_speed == acc.total_speed \div Len(h)
               IN acc.direction_changes >= kMinDirectionChanges
                  /\ avg_speed >= kMinMovementSpeed * SpeedScale

DetectShakePattern(h) ==
  IF Len(h) < kHistorySize THEN FALSE
  ELSE LET acc == ShakeLoop(h, 1, ShakeLocals0)
       IN IF acc.total_time > kMaxTimeWindow THEN FALSE
          ELSE LET avg_speed == acc.total_speed \div Len(h)
               IN acc.direction_changes >= kMinDirectionChanges
                  /\ avg_speed >= kMinMovementSpeed * SpeedScale

----------------------------------------------------------------------------
(* MouseMoveDetector::ShouldEnlargeCursor *)

delta_time(t) == DurationCastMs(t - last_time_)

\* variant: the early return taken only for delta_time < 0
Rejected_Strict(t) == delta_time(t) < 0

\* if (delta_time <= 0) return false;
Rejected(t) == delta_time(t) <= 0

Movement(current_pos, t) ==
  [dx |-> current_pos.x - last_pos_.x,
   dy |-> current_pos.y - last_pos_.y,
   dt |-> delta_time(t)]

\* variant: push_back without the pop_front
PushHistory_NoEvict(h, mov) == Append(h, mov)

\* push_back, then pop_front when over kHistorySize
PushHistory(h, mov) ==
  LET pushed == Append(h, mov)
  IN IF Len(pushed) > kHistorySize THEN Tail(pushed) ELSE pushed

\* the value returned by ShouldEnlargeCursor(current_pos) when the clock reads t
ShouldEnlargeCursorResult(current_pos, t) ==
  IF Rejected(t) THEN FALSE
  ELSE DetectShakePattern(PushHistory(movement_history_, Movement(current_pos, t)))

\* variant: the history is cleared when the call returns true
ShouldEnlargeCursor_ResetOnTrue(current_pos, t) ==
  /\ calls' = calls + 1
  /\ ret' = ShouldEnlargeCursorResult(current_pos, t)
  /\ IF Rejected(t)
     THEN UNCHANGED <<last_pos_, last_time_, movement_history_, samples>>
     ELSE /\ movement_history_' =
               (IF ShouldEnlargeCursorResult(current_pos, t) THEN <<>>
                ELSE PushHistory(movement_history_, Movement(current_pos, t)))
          /\ samples' = samples + 1
          /\ last_pos_' = current_pos
          /\ last_time_' = t

\* variant: the first call only takes the baseline and pushes nothing
ShouldEnlargeCursor_BaselineFirst(current_pos, t) ==
  /\ calls' = calls + 1
  /\ IF calls = 0
     THEN /\ ret' = FALSE
          /\ last_pos_' = current_pos
          /\ last_time_' = t
          /\ UNCHANGED <<movement_history_, samples>>
     ELSE /\ ret' = ShouldEnlargeCursorResult(current_pos, t)
          /\ IF Rejected(t)
             THEN UNCHANGED <<last_pos_, last_time_, movement_history_, samples>>
             ELSE /\ movement_history_' =
                       PushHistory(movement_history_, Movement(current_pos, t))
                  /\ samples' = samples + 1
                  /\ last_pos_' = current_pos
                  /\ last_time_' = t

\* its effect on the detector
ShouldEnlargeCursor(current_pos, t) ==
  /\ calls' = calls + 1
  /\ ret' = ShouldEnlargeCursorResult(current_pos, t)
  /\ IF Rejected(t)
     THEN UNCHANGED <<last_pos_, last_time_, movement_history_, samples>>
     ELSE /\ movement_history_' =
               PushHistory(movement_history_, Movement(current_pos, t))
          /\ samples' = samples + 1
          /\ last_pos_' = current_pos
          /\ last_time_' = t

----------------------------------------------------------------------------
(* Host API calls as the handlers' logs record them *)
Call(api, arg, ok) == [api |-> api, arg |-> arg, ok |-> ok]

----------------------------------------------------------------------------
(* CursorUtils::ScaleCursor *)

\* double scale_factor is carried as a count of 1/FactorDen
FactorDen == 2

\* static_cast<int>(n * scale_factor), static_cast<DWORD>(n * scale_factor)
\* for n >= 0 and scale_factor > 0: the fraction is dropped
ScaleTrunc(n, factor) == (n * factor) \div FactorDen

NullCursor ==
  [handle |-> "nullptr", xHotspot |-> 0, yHotspot |-> 0,
   width |-> 0, height |-> 0, color_drawn |-> FALSE, mask_drawn |-> FALSE]

\* return cur, the host calls made so far being log
ScaleReturn(log, cur) == [new_cursor |-> cur, host_log |-> log]

\* "Clean up resources" after the do-while, then return new_cursor
ScaleCleanup(log, new_color, new_mask, cur) ==
  ScaleReturn(
    log
      \o (IF new_color THEN <<Call("DeleteObject", "new_color", TRUE)>> ELSE <<>>)
      \o (IF new_mask THEN <<Call("DeleteObject", "new_mask", TRUE)>> ELSE <<>>)
      \o <<Call("DeleteDC", "src_dc", TRUE), Call("DeleteDC", "dst_dc", TRUE),
           Call("ReleaseDC", "screen_dc", TRUE)>>,
    cur)

\* the body of the do { ... } while (false)
ScaleBody(c, log) ==
  LET new_width == ScaleTrunc(c.bmWidth, c.factor)
      new_height == ScaleTrunc(c.bmHeight, c.factor)
      l1 == Append(log, Call("CreateDIBSection", "new_color", c.host.CreateDIBSection))
      l2 == Append(l1, Call("CreateBitmap", "new_mask", c.host.CreateBitmap))
      l3 == Append(l2, Call("StretchBlt", "new_color", c.host.StretchBltColor))
      l4 == IF c.has_color
            THEN Append(l3, Call("StretchBlt", "new_mask", c.host.StretchBltMask))
            ELSE l3
      l5 == Append(l4, Call("CreateIconIndirect", "new_cursor", c.host.CreateIconIndirect))
      made == [handle |-> "scaled",
               xHotspot |-> ScaleTrunc(c.xHotspot, c.factor),
               yHotspot |-> ScaleTrunc(c.yHotspot, c.factor),
               width |-> new_width,
               height |-> new_height,
               color_drawn |-> c.host.StretchBltColor,
               mask_drawn |-> c.has_color /\ c.host.StretchBltMask]
  IN IF ~c.host.CreateDIBSection THEN ScaleCleanup(l1, FALSE, FALSE, NullCursor)
     ELSE IF ~c.host.CreateBitmap THEN ScaleCleanup(l2, TRUE, FALSE, NullCursor)
     ELSE ScaleCleanup(l5, TRUE, TRUE,
                       IF c.host.CreateIconIndirect THEN made ELSE NullCursor)

\* variant: only a negative scale_factor is turned away
ScaleCursor_AllowZero(c) ==
  IF c.src = "nullptr" \/ c.factor < 0 THEN ScaleReturn(<<>>, NullCursor)
  ELSE LET l1 == <<Call("GetIconInfo", c.src, c.host.GetIconInfo)>>
           l2 == Append(l1, Call("GetObject", "bm", c.host.GetObject))
           l3 == Append(l2, Call("GetDC", "screen_dc", c.host.GetDC))
           l4 == l3 \o <<Call("CreateCompatibleDC", "src_dc", c.host.src_dc),
                         Call("CreateCompatibleDC", "dst_dc", c.host.dst_dc)>>
       IN IF ~c.host.GetIconInfo THEN ScaleReturn(l1, NullCursor)
          ELSE IF ~c.host.GetObject THEN ScaleReturn(l2, NullCursor)
          ELSE IF ~c.host.GetDC THEN ScaleReturn(l3, NullCursor)
          ELSE IF ~c.host.src_dc \/ ~c.host.dst_dc
               THEN ScaleReturn(
                      l4 \o (IF c.host.src_dc
                             THEN <<Call("DeleteDC", "src_dc", TRUE)>> ELSE <<>>)
                         \o (IF c.host.dst_dc
                             THEN <<Call("DeleteDC", "dst_dc", TRUE)>> ELSE <<>>)
                         \o <<Call("ReleaseDC", "screen_dc", TRUE)>>,
                      NullCursor)
          ELSE ScaleBody(c, l4)

\* CursorUtils::ScaleCursor(src_cursor, scale_factor): the cursor it returns
\* and the host calls it makes, in order
ScaleCursor(c) ==
  IF c.src = "nullptr" \/ c.factor <= 0 THEN ScaleReturn(<<>>, NullCursor)
  ELSE LET l1 == <<Call("GetIconInfo", c.src, c.host.GetIconInfo)>>
           l2 == Append(l1, Call("GetObject", "bm", c.host.GetObject))
           l3 == Append(l2, Call("GetDC", "screen_dc", c.host.GetDC))
           l4 == l3 \o <<Call("CreateCompatibleDC", "src_dc", c.host.src_dc),
                         Call("CreateCompatibleDC", "dst_dc", c.host.dst_dc)>>
       IN IF ~c.host.GetIconInfo THEN ScaleReturn(l1, NullCursor)
          ELSE IF ~c.host.GetObject THEN ScaleReturn(l2, NullCursor)
          ELSE IF ~c.host.GetDC THEN ScaleReturn(l3, NullCursor)
          ELSE IF ~c.host.src_dc \/ ~c.host.dst_dc
               THEN ScaleReturn(
                      l4 \o (IF c.host.src_dc
                             THEN <<Call("DeleteDC", "src_dc", TRUE)>> ELSE <<>>)
                         \o (IF c.host.dst_dc
                             THEN <<Call("DeleteDC", "dst_dc", TRUE)>> ELSE <<>>)
                         \o <<Call("ReleaseDC", "screen_dc", TRUE)>>,
                      NullCursor)
          ELSE ScaleBody(c, l4)

\* every host call ScaleCursor checks, and the two it does not, succeeding
ScaleHostOk ==
  [GetIconInfo |-> TRUE, GetObject |-> TRUE, GetDC |-> TRUE, src_dc |-> TRUE,
   dst_dc |-> TRUE, CreateDIBSection |-> TRUE, CreateBitmap |-> TRUE,
   StretchBltColor |-> TRUE, StretchBltMask |-> TRUE,
   CreateIconIndirect |-> TRUE]

\* the call the CursorState constructor makes:
\* ScaleCursor(original_cursor_, CursorConfig::kScaleFactor)
CtorScaleCall ==
  [src |-> "original", factor |-> kScaleFactor * FactorDen,
   xHotspot |-> 0, yHotspot |-> 0, has_color |-> TRUE,
   bmWidth |-> 32, bmHeight |-> 32, host |-> ScaleHostOk]

----------------------------------------------------------------------------
(* CursorState *)

\* the CursorState object together with what the host holds for it
CS ==
  [is_enlarged_ |-> is_enlarged_,
   enlarge_start_time_ |-> enlarge_start_time_,
   original_cursor_ |-> original_cursor_,
   large_cursor_ |-> large_cursor_,
   system_cursor |-> system_cursor,
   live_copies |-> live_copies,
   host_log |-> <<>>]

\* HCURSOR cursor_copy = CopyCursor(src): NULL when the host fails
CopyCursor(cs, src, ok) ==
  [cs EXCEPT !.host_log = Append(@, Call("CopyCursor", src, ok)),
             !.live_copies = IF ok THEN @ + 1 ELSE @]

\* SetSystemCursor(cursor_copy, OCR_NORMAL): on success the host owns the copy
SetSystemCursor(cs, src, ok) ==
  [cs EXCEPT !.host_log = Append(@, Call("SetSystemCursor", src, ok)),
             !.system_cursor = IF ok THEN src ELSE @,
             !.live_copies = IF ok THEN @ - 1 ELSE @]

\* DestroyCursor(cursor_copy)
DestroyCopy(cs, src) ==
  [cs EXCEPT !.host_log = Append(@, Call("DestroyCursor", src, TRUE)),
             !.live_copies = @ - 1]

\* variant: a call made while enlarged restarts the dwell
Enlarge_Refresh(cs, t, host) ==
  IF cs.is_enlarged_ THEN [cs EXCEPT !.enlarge_start_time_ = t]
  ELSE LET copied == CopyCursor(cs, "large", host.copy)
       IN IF ~host.copy THEN copied
          ELSE LET set == SetSystemCursor(copied, "large", host.set)
               IN IF host.set
                  THEN [set EXCEPT !.is_enlarged_ = TRUE,
                                   !.enlarge_start_time_ = t]
                  ELSE DestroyCopy(set, "large")

\* variant: the copy is not destroyed when SetSystemCursor fails
Enlarge_LeakCopy(cs, t, host) ==
  IF cs.is_enlarged_ THEN cs
  ELSE LET copied == CopyCursor(cs, "large", host.copy)
       IN IF ~host.copy THEN copied
          ELSE LET set == SetSystemCursor(copied, "large", host.set)
               IN IF host.set
                  THEN [set EXCEPT !.is_enlarged_ = TRUE,
                                   !.enlarge_start_time_ = t]
                  ELSE set

\* CursorState::Enlarge; host = the outcomes of the host calls it makes
Enlarge(cs, t, host) ==
  IF cs.is_enlarged_ THEN cs
  ELSE LET copied == CopyCursor(cs, "large", host.copy)
       IN IF ~host.copy THEN copied
          ELSE LET set == SetSystemCursor(copied, "large", host.set)
               IN IF host.set
                  THEN [set EXCEPT !.is_enlarged_ = TRUE,
                                   !.enlarge_start_time_ = t]
                  ELSE DestroyCopy(set, "large")

\* variant: is_enlarged_ cleared whether or not SetSystemCursor succeeded
RestoreOriginalCursor_Abandon(cs, host) ==
  IF ~cs.is_enlarged_ THEN cs
  ELSE LET copied == CopyCursor(cs, "original", host.copy)
       IN IF ~host.copy THEN copied
          ELSE LET set == SetSystemCursor(copied, "original", host.set)
               IN IF host.set
                  THEN [set EXCEPT !.is_enlarged_ = FALSE]
                  ELSE [DestroyCopy(set, "original") EXCEPT !.is_enlarged_ = FALSE]

\* CursorState::RestoreOriginalCursor
RestoreOriginalCursor(cs, host) ==
  IF ~cs.is_enlarged_ THEN cs
  ELSE LET copied == CopyCursor(cs, "original", host.copy)
       IN IF ~host.copy THEN copied
          ELSE LET set == SetSystemCursor(copied, "original", host.set)
               IN IF host.set
                  THEN [set EXCEPT !.is_enlarged_ = FALSE]
                  ELSE DestroyCopy(set, "original")

\* elapsed, as RestoreIfNeeded computes it when the clock reads t
elapsed(cs, t) == DurationCastMs(t - cs.enlarge_start_time_)

\* variant: elapsed >= kEnlargeDurationMs
RestoreIfNeeded_AtDuration(cs, t, host) ==
  IF cs.is_enlarged_
  THEN IF elapsed(cs, t) >= kEnlargeDurationMs
       THEN RestoreOriginalCursor(cs, host)
       ELSE cs
  ELSE cs

\* CursorState::RestoreIfNeeded
RestoreIfNeeded(cs, t, host) ==
  IF cs.is_enlarged_
  THEN IF elapsed(cs, t) > kEnlargeDurationMs
       THEN RestoreOriginalCursor(cs, host)
       ELSE cs
  ELSE cs

\* DestroyCursor(handle) on an owned handle; the member keeps its value
DestroyOwned(cs, member) ==
  [cs EXCEPT !.host_log = Append(@, Call("DestroyCursor", cs[member].handle, TRUE)),
             ![member].destroyed = @ + 1]

\* variant: the system cursors restored only when is_enlarged_
CursorStateDtor_IfEnlarged(cs, spi_ok) ==
  LET spi == IF cs.is_enlarged_
             THEN [cs EXCEPT
                     !.host_log = Append(@, Call("SystemParametersInfo", "SPI_SETCURSORS", spi_ok)),
                     !.system_cursor = IF spi_ok THEN "default" ELSE @,
                     !.is_enlarged_ = IF spi_ok THEN FALSE ELSE @]
             ELSE cs
      d1 == IF spi.original_cursor_.handle # "nullptr"
            THEN DestroyOwned(spi, "original_cursor_") ELSE spi
      d2 == IF d1.large_cursor_.handle # "nullptr"
            THEN DestroyOwned(d1, "large_cursor_") ELSE d1
  IN d2

\* CursorState::~CursorState; spi_ok = what SystemParametersInfo returns
CursorStateDtor(cs, spi_ok) ==
  LET spi == [cs EXCEPT
                !.host_log = Append(@, Call("SystemParametersInfo", "SPI_SETCURSORS", spi_ok)),
                !.system_cursor = IF spi_ok THEN "default" ELSE @,
                !.is_enlarged_ = IF spi_ok THEN FALSE ELSE @]
      d1 == IF spi.original_cursor_.handle # "nullptr"
            THEN DestroyOwned(spi, "original_cursor_") ELSE spi
      d2 == IF d1.large_cursor_.handle # "nullptr"
            THEN DestroyOwned(d1, "large_cursor_") ELSE d1
  IN d2

\* the object and host state after a handler
SetCursorState(cs) ==
  /\ is_enlarged_' = cs.is_enlarged_
  /\ enlarge_start_time_' = cs.enlarge_start_time_
  /\ original_cursor_' = cs.original_cursor_
  /\ large_cursor_' = cs.large_cursor_
  /\ system_cursor' = cs.system_cursor
  /\ live_copies' = cs.live_copies
  /\ host_log' = cs.host_log

----------------------------------------------------------------------------
(* Inputs *)

\* cursor positions the host reports
PosSet == {[x |-> 0, y |-> 0], [x |-> 40, y |-> 30]}

\* clock advance between two reads of the clock by the detector alone
SampleDts == {0, 1, Ms(50)}

----------------------------------------------------------------------------
(* Construction *)

\* MouseMoveDetector::MouseMoveDetector
InitDetector ==
  /\ now = 0
  /\ last_pos_ \in PosSet
  /\ last_time_ = now
  /\ movement_history_ = <<>>

\* CursorState::CursorState, both handles obtained (it throws otherwise)
InitCursorState ==
  /\ is_enlarged_ = FALSE
  /\ enlarge_start_time_ = 0
  /\ original_cursor_ = [handle |-> "original", destroyed |-> 0]
  /\ large_cursor_ = [handle |-> "large", destroyed |-> 0]
  /\ system_cursor = "default"
  /\ live_copies = 0
  /\ scale_call = CtorScaleCall
  /\ new_cursor = ScaleCursor(CtorScaleCall).new_cursor

\* ShakeToFindCursor after Initialize, before main calls Run: running_{false},
\* nothing posted yet
InitRunner ==
  /\ running_ = FALSE
  /\ run_pc = "main"
  /\ msg = "none"
  /\ posted = <<>>
  /\ timer_due = FALSE
  /\ stop_pc = "idle"
  /\ ctrl_events = 0
  /\ tray_clicks = 0
  /\ stop_log = {}

InitObserved ==
  /\ op = "constructed"
  /\ ret = FALSE
  /\ host_log = <<>>
  /\ calls = 0
  /\ samples = 0
  /\ teardowns = 0
  /\ InitRunner

----------------------------------------------------------------------------
(* The detector on its own: constructed, then fed observations *)

Observe(current_pos, d) ==
  /\ calls < MaxCalls
  /\ now' = now + d
  /\ ShouldEnlargeCursor(current_pos, now + d)
  /\ op' = "ShouldEnlargeCursor"
  /\ UNCHANGED <<tracking_mode_, controller, host_log, teardowns, scaler, runner>>

InitDetectorOnly ==
  /\ tracking_mode_ = "kHook"
  /\ InitDetector
  /\ InitCursorState
  /\ InitObserved

NextDetector == \E current_pos \in PosSet, d \in SampleDts : Observe(current_pos, d)

SpecDetector == InitDetectorOnly /\ [][NextDetector]_vars

----------------------------------------------------------------------------
(* The detector fed a steady shake: the cursor goes 50 px to the right, 50 px
   to the left, and so on (dy = 0), one sample every 40 ms *)

\* clock advance between the construction of the detector and the first
\* sample: none, under a millisecond, 1 ms, 40 ms, 140 ms, a little more, 141
\* ms, 200 ms
ShakeFirstGaps == {0, 1, Ms(1), Ms(40), Ms(140), Ms(140) + 1, Ms(141), Ms(200)}

ShakeGaps == IF calls = 0 THEN ShakeFirstGaps ELSE {Ms(40)}

\* where the next sample finds the cursor
ShakePos ==
  [x |-> last_pos_.x + (IF calls % 2 = 0 THEN 50 ELSE -50), y |-> last_pos_.y]

FeedShake == \E d \in ShakeGaps : Observe(ShakePos, d)

SpecSteadyShake == InitDetectorOnly /\ [][FeedShake]_vars

----------------------------------------------------------------------------
(* DetectShakePattern as a function of the window alone *)

\* the Movements a window is drawn from
WindowSamples ==
  {[dx |-> 40, dy |-> 30, dt |-> 50],
   [dx |-> 0, dy |-> -30, dt |-> 50],
   [dx |-> -40, dy |-> 0, dt |-> 51]}

RECURSIVE SumOver(_, _, _)
SumOver(h, i, field) ==
  IF i > Len(h) THEN 0 ELSE h[i][field] + SumOver(h, i + 1, field)

\* a detector that has pushed exactly the kHistorySize Movements of a window
InitShake ==
  /\ tracking_mode_ = "kHook"
  /\ movement_history_ \in [1..kHistorySize -> WindowSamples]
  /\ last_pos_ = [x |-> SumOver(movement_history_, 1, "dx"),
                  y |-> SumOver(movement_history_, 1, "dy")]
  /\ last_time_ = Ms(SumOver(movement_history_, 1, "dt"))
  /\ now = last_time_
  /\ InitCursorState
  /\ op = "constructed"
  /\ ret = FALSE
  /\ host_log = <<>>
  /\ calls = kHistorySize
  /\ samples = kHistorySize
  /\ teardowns = 0
  /\ InitRunner

DetectStep ==
  /\ op = "constructed"
  /\ ret' = DetectShakePattern(movement_history_)
  /\ op' = "DetectShakePattern"
  /\ UNCHANGED <<tracking_mode_, now, detector, controller, host_log, calls,
                 samples, teardowns, scaler, runner>>

SpecShake == InitShake /\ [][DetectStep]_vars

----------------------------------------------------------------------------
(* ScaleCursor as a function of its arguments and of what the host answers *)

\* scale factors -1, 0, 1/FactorDen, 1 + 1/FactorDen and kScaleFactor
ScaleFactors == {-FactorDen, 0, 1, FactorDen + 1, kScaleFactor * FactorDen}

ScaleHosts ==
  [GetIconInfo : BOOLEAN, GetObject : BOOLEAN, GetDC : BOOLEAN,
   src_dc : BOOLEAN, dst_dc : BOOLEAN, CreateDIBSection : BOOLEAN,
   CreateBitmap : BOOLEAN, StretchBltColor : BOOLEAN,
   StretchBltMask : BOOLEAN, CreateIconIndirect : BOOLEAN]

ScaleCalls ==
  [src : {"nullptr", "original"}, factor : ScaleFactors,
   xHotspot : 0..MaxHotspot, yHotspot : 0..MaxHotspot, has_color : BOOLEAN,
   bmWidth : {32}, bmHeight : {32}, host : ScaleHosts]

\* a caller about to call ScaleCursor
InitScale ==
  /\ tracking_mode_ = "kHook"
  /\ now = 0
  /\ last_pos_ = [x |-> 0, y |-> 0]
  /\ last_time_ = now
  /\ movement_history_ = <<>>
  /\ is_enlarged_ = FALSE
  /\ enlarge_start_time_ = 0
  /\ original_cursor_ = [handle |-> "original", destroyed |-> 0]
  /\ large_cursor_ = [handle |-> "nullptr", destroyed |-> 0]
  /\ system_cursor = "default"
  /\ live_copies = 0
  /\ InitObserved
  /\ scale_call \in ScaleCalls
  /\ new_cursor = NullCursor

ScaleStep ==
  /\ op = "constructed"
  /\ new_cursor' = ScaleCursor(scale_call).new_cursor
  /\ host_log' = ScaleCursor(scale_call).host_log
  /\ op' = "ScaleCursor"
  /\ UNCHANGED <<tracking_mode_, now, detector, is_enlarged_,
                 enlarge_start_time_, original_cursor_, large_cursor_,
                 system_cursor, live_copies, ret, calls, samples, teardowns,
                 scale_call, runner>>

SpecScale == InitScale /\ [][ScaleStep]_vars

----------------------------------------------------------------------------
(* Properties of ScaleCursor *)

\* C11: ScaleCursor with a scale factor of 0 or less returns no cursor,
\* whatever the source cursor, and makes no host call before it returns.
C11_NonPositiveFactor ==
  (op = "ScaleCursor" /\ scale_call.factor <= 0)
    => (new_cursor = NullCursor /\ host_log = <<>>)

\* a factor of exactly 0, a valid source and a host that would refuse nothing
C11_Witness ==
  /\ op = "ScaleCursor"
  /\ scale_call.factor = 0
  /\ scale_call.src = "original"
  /\ scale_call.host = ScaleHostOk
  /\ new_cursor.handle = "nullptr"

\* n * factor rounded to nearest
ScaleRound(n, factor) == (2 * n * factor + FactorDen) \div (2 * FactorDen)

\* C12: the hotspot of a cursor ScaleCursor returns is (round(x * factor),
\* round(y * factor)), rounding to nearest.
C12_HotspotRounded ==
  (op = "ScaleCursor" /\ new_cursor.handle # "nullptr")
    => /\ new_cursor.xHotspot = ScaleRound(scale_call.xHotspot, scale_call.factor)
       /\ new_cursor.yHotspot = ScaleRound(scale_call.yHotspot, scale_call.factor)

\* every step of the scaling went through
ScaleStepsOk(c) ==
  /\ c.host.GetIconInfo
  /\ c.host.GetObject
  /\ c.host.GetDC
  /\ c.host.src_dc
  /\ c.host.dst_dc
  /\ c.host.CreateDIBSection
  /\ c.host.CreateBitmap
  /\ c.host.StretchBltColor
  /\ c.has_color => c.host.StretchBltMask
  /\ c.host.CreateIconIndirect

\* C13: ScaleCursor returns a cursor only when every allocation and
\* resampling step succeeded (device contexts, colour surface, mask surface,
\* both stretch-blits, cursor composition); if any of them fails it returns
\* no cursor.
C13_AllOrNothing ==
  op = "ScaleCursor" =>
    (new_cursor.handle # "nullptr" => ScaleStepsOk(scale_call))

----------------------------------------------------------------------------
(* Properties of the detector *)

\* C1: on a freshly constructed detector, while fewer than 10 calls of
\* ShouldEnlargeCursor have been made, whatever the positions and clock
\* readings, the call just made returned false.
C1_ColdStart == calls < kHistorySize => ret = FALSE

\* nine calls, all accepted, the nine Movements reversing direction at least
\* kMinDirectionChanges times: a shake in all but the length of the window
C1_Witness ==
  /\ op = "ShouldEnlargeCursor"
  /\ calls = kHistorySize - 1
  /\ Len(movement_history_) = kHistorySize - 1
  /\ ShakeLoop(movement_history_, 1, ShakeLocals0).direction_changes
       >= kMinDirectionChanges
  /\ ret = FALSE

\* the three quantities of the shake predicate, stated over the window
TotalTime(h) == SumOver(h, 1, "dt")

SignFlips(h, axis) ==
  Cardinality({i \in 2..Len(h) :
                 Direction(h[i - 1][axis]) * Direction(h[i][axis]) = -1})

RECURSIVE SpeedSum(_, _)
SpeedSum(h, i) ==
  IF i > Len(h) THEN 0
  ELSE (Sqrt(h[i].dx * h[i].dx + h[i].dy * h[i].dy) * 1000) \div h[i].dt
       + SpeedSum(h, i + 1)

ShakePredicate(h) ==
  /\ TotalTime(h) <= kMaxTimeWindow
  /\ SignFlips(h, "dx") + SignFlips(h, "dy") >= kMinDirectionChanges
  /\ SpeedSum(h, 1) >= kMinMovementSpeed * SpeedScale * Len(h)

\* C2: over a full window of 10 Movements the detector answers true if and
\* only if the sum of dt is at most 500 ms, the sign flips between
\* neighbouring Movements, summed over the x and y axes, are at least 5, and
\* the mean of the per-Movement speeds is at least 800 px/s.
C2_ShakeIff ==
  op = "DetectShakePattern" =>
    (ret <=> ShakePredicate(movement_history_))

\* a window of 501 ms whose speed and direction changes both pass: false
C2_Witness ==
  /\ op = "DetectShakePattern"
  /\ TotalTime(movement_history_) = kMaxTimeWindow + 1
  /\ SignFlips(movement_history_, "dx") + SignFlips(movement_history_, "dy")
       >= kMinDirectionChanges
  /\ SpeedSum(movement_history_, 1)
       >= kMinMovementSpeed * SpeedScale * Len(movement_history_)
  /\ ret = FALSE

\* the direction changes of one axis when zero displacements are skipped:
\* each non-zero direction is compared with the last non-zero one before it
RECURSIVE SkipZeroFlips(_, _, _, _)
SkipZeroFlips(h, i, axis, last) ==
  IF i > Len(h) THEN 0
  ELSE LET cur == Direction(h[i][axis])
       IN IF cur = 0 THEN SkipZeroFlips(h, i + 1, axis, last)
          ELSE (IF last # 0 /\ last # cur THEN 1 ELSE 0)
               + SkipZeroFlips(h, i + 1, axis, cur)

\* C3: a Movement with zero displacement on an axis neither counts as a
\* direction change nor resets that axis's last direction, so the count of
\* the window is the count with the zero displacements skipped (+, 0, -
\* counts one change, as +, - does).
C3_ZeroKeepsLastDirection ==
  op = "DetectShakePattern" =>
    ShakeLoop(movement_history_, 1, ShakeLocals0).direction_changes
      = SkipZeroFlips(movement_history_, 1, "dx", 0)
        + SkipZeroFlips(movement_history_, 1, "dy", 0)

\* C4: a call of ShouldEnlargeCursor for which the elapsed time since the
\* last accepted observation is 0 ms or less (as duration_cast measures it)
\* returns false and leaves the history as it was.
C4_RejectedLeavesHistory ==
  [][(op' = "ShouldEnlargeCursor" /\ DurationCastMs(now' - last_time_) <= 0)
       => (ret' = FALSE /\ movement_history_' = movement_history_)]_vars

\* a rejected call made on a full window that satisfies the shake predicate
C4_Witness ==
  /\ op = "ShouldEnlargeCursor"
  /\ Len(movement_history_) = kHistorySize
  /\ DetectShakePattern(movement_history_)
  /\ ret = FALSE
  /\ calls > samples

\* C5: the history holds min(10, number of Movements pushed so far) entries,
\* so never more than 10.
C5_WindowSize ==
  /\ Len(movement_history_) = Min(kHistorySize, samples)
  /\ Len(movement_history_) <= kHistorySize

\* an eleventh Movement has been pushed and the oldest evicted
C5_Witness ==
  /\ samples = kHistorySize + 1
  /\ Len(movement_history_) = kHistorySize

\* C14 as claimed: of 10 samples alternating dx = +50, -50 every 40 ms fed
\* to a fresh detector, the first nine return false and the tenth true.
C14_TenthSampleTrue ==
  op = "ShouldEnlargeCursor" =>
    /\ calls < kHistorySize => ret = FALSE
    /\ calls = kHistorySize => ret = TRUE

\* C14: of 10 samples alternating dx = +50, -50 every 40 ms fed to a fresh
\* detector, the first nine return false, and the tenth returns true exactly
\* when the first sample came at least 1 and at most 140 whole milliseconds
\* after the detector was constructed (so that all ten were pushed and the
\* window spans at most 500 ms).
C14_TenthSample ==
  op = "ShouldEnlargeCursor" =>
    /\ calls < kHistorySize => ret = FALSE
    /\ calls = kHistorySize =>
         (ret <=> /\ samples = kHistorySize
                  /\ movement_history_[1].dt
                       <= kMaxTimeWindow - (kHistorySize - 1) * 40)

\* the tenth sample of a shake whose first sample came 40 ms after construction
C14_Witness ==
  /\ op = "ShouldEnlargeCursor"
  /\ calls = kHistorySize
  /\ samples = kHistorySize
  /\ \A i \in 1..kHistorySize : movement_history_[i].dt = 40
  /\ movement_history_[1].dx = 50
  /\ movement_history_[kHistorySize].dx = -50
  /\ ret = TRUE

\* C15 as claimed: the first call of ShouldEnlargeCursor returns false and
\* leaves the history empty.
C15_FirstCallOnlyBaseline ==
  calls = 1 => (ret = FALSE /\ movement_history_ = <<>>)

\* C15: the baseline is the position and time read by the constructor; the
\* first call of ShouldEnlargeCursor returns false and, when at least one
\* whole millisecond has passed since construction, pushes one Movement
\* measured against that baseline and moves the baseline to the sample;
\* when less has passed it pushes nothing and keeps the baseline.
C15_FirstCall ==
  [][(calls = 0 /\ op' = "ShouldEnlargeCursor") =>
       /\ ret' = FALSE
       /\ IF DurationCastMs(now' - last_time_) >= 1
          THEN /\ movement_history_' =
                    <<[dx |-> last_pos_'.x - last_pos_.x,
                       dy |-> last_pos_'.y - last_pos_.y,
                       dt |-> DurationCastMs(now' - last_time_)]>>
               /\ last_time_' = now'
          ELSE /\ movement_history_' = <<>>
               /\ UNCHANGED <<last_pos_, last_time_>>]_vars

\* one call made, one Movement away from the constructor's baseline pushed
C15_Witness ==
  /\ op = "ShouldEnlargeCursor"
  /\ calls = 1
  /\ Len(movement_history_) = 1
  /\ movement_history_[1].dx # 0
  /\ ret = FALSE

----------------------------------------------------------------------------
(* The program: ShakeToFindCursor with its detector and its CursorState *)

\* outcomes of CopyCursor and SetSystemCursor within one handler
HostOutcomes == [copy : BOOLEAN, set : BOOLEAN]

\* the user shakes the cursor: each event finds it away from where the last
\* accepted observation left it
Shaken == PosSet \ {last_pos_}

\* clock advance since the previous handler ran. Mouse events come 50 ms
\* apart. A polling timer event (10 ms timer) comes less than a millisecond,
\* 50 ms or 400 ms after the previous one; a hook-mode timer event (100 ms
\* timer) comes at once, less than a millisecond or 400 ms after the
\* previous handler.
MouseDts == {Ms(50)}
PollingTimerDts == {1, Ms(50), Ms(400)}
HookTimerDts == {0, 1, Ms(400)}
TimerDts == IF tracking_mode_ = "kPolling" THEN PollingTimerDts ELSE HookTimerDts

\* the clock stays within MaxTimeMs, and its advances of less than a
\* millisecond never add up to a millisecond
ClockMayAdvance(d) ==
  /\ now + d <= Ms(MaxTimeMs)
  /\ d % TicksPerMs # 0 => (now % TicksPerMs) + d < TicksPerMs

\* variant: Enlarge whatever the detector answered
ProcessMouseMove_Always(cs, should_enlarge, t, host) == Enlarge(cs, t, host)

\* ShakeToFindCursor::ProcessMouseMove on the CursorState, the detector
\* having answered should_enlarge when the clock read t
ProcessMouseMove(cs, should_enlarge, t, host) ==
  IF should_enlarge THEN Enlarge(cs, t, host) ELSE cs

\* ShakeToFindCursor::MouseProc (WH_MOUSE_LL hook, WM_MOUSEMOVE)
MouseProc(current_pos, d, host) ==
  /\ tracking_mode_ = "kHook"
  /\ teardowns = 0
  /\ ClockMayAdvance(d)
  /\ now' = now + d
  /\ ShouldEnlargeCursor(current_pos, now + d)
  /\ SetCursorState(ProcessMouseMove(CS, ret', now + d, host))
  /\ op' = "MouseProc"
  /\ UNCHANGED <<tracking_mode_, teardowns, scaler, runner>>

\* variant: in polling mode RestoreIfNeeded runs before ProcessMouseMove
WmTimer_RestoreFirst(current_pos, d, host) ==
  /\ teardowns = 0
  /\ ClockMayAdvance(d)
  /\ now' = now + d
  /\ IF tracking_mode_ = "kPolling"
     THEN /\ ShouldEnlargeCursor(current_pos, now + d)
          /\ SetCursorState(
               ProcessMouseMove(RestoreIfNeeded(CS, now + d, host),
                                ret', now + d, host))
     ELSE /\ UNCHANGED <<detector, calls, samples>>
          /\ ret' = FALSE
          /\ SetCursorState(RestoreIfNeeded(CS, now + d, host))
  /\ op' = "WM_TIMER"
  /\ UNCHANGED <<tracking_mode_, teardowns, scaler, runner>>

\* ShakeToFindCursor::WindowProc, case WM_TIMER
WmTimer(current_pos, d, host) ==
  /\ teardowns = 0
  /\ ClockMayAdvance(d)
  /\ now' = now + d
  /\ IF tracking_mode_ = "kPolling"
     THEN /\ ShouldEnlargeCursor(current_pos, now + d)
          /\ SetCursorState(
               RestoreIfNeeded(ProcessMouseMove(CS, ret', now + d, host),
                               now + d, host))
     ELSE /\ UNCHANGED <<detector, calls, samples>>
          /\ ret' = FALSE
          /\ SetCursorState(RestoreIfNeeded(CS, now + d, host))
  /\ op' = "WM_TIMER"
  /\ UNCHANGED <<tracking_mode_, teardowns, scaler, runner>>

\* ~ShakeToFindCursor destroys cursor_state_: CursorState::~CursorState
Teardown(spi_ok) ==
  /\ teardowns < MaxTeardowns
  /\ teardowns' = teardowns + 1
  /\ SetCursorState(CursorStateDtor(CS, spi_ok))
  /\ op' = "~CursorState"
  /\ ret' = FALSE
  /\ UNCHANGED <<tracking_mode_, now, detector, calls, samples, scaler, runner>>

Init ==
  /\ tracking_mode_ \in {"kHook", "kPolling"}
  /\ InitDetector
  /\ InitCursorState
  /\ InitObserved

Next ==
  \/ \E current_pos \in Shaken, d \in MouseDts, host \in HostOutcomes :
       MouseProc(current_pos, d, host)
  \/ \E current_pos \in Shaken, d \in TimerDts, host \in HostOutcomes :
       WmTimer(current_pos, d, host)
  \/ \E spi_ok \in BOOLEAN : Teardown(spi_ok)

Spec == Init /\ [][Next]_vars

----------------------------------------------------------------------------
(* The controller over an unbounded run.

   The clock has no upper bound here. The controller uses clock readings
   only through the difference now - enlarge_start_time_, so the state keeps
   the clock relative to enlarge_start_time_ (which then reads 0), and a
   difference past kEnlargeDurationMs + 1 ms is kept as that: RestoreIfNeeded
   does not tell larger ones apart. While the controller is Normal,
   enlarge_start_time_ is not read before Enlarge writes it, and the clock is
   kept at 0.

   What ShouldEnlargeCursor answers is an input of each sample step, so that
   every sequence of classifications is covered, the ones that stay positive
   through the whole dwell included; the detector itself is the one of the
   specifications above. *)

LiveHorizon == Ms(kEnlargeDurationMs + 1)

\* clock advance before a mouse event: none, or 50 ms
LiveMouseDts == {0, Ms(50)}

\* clock advance before a timer event: the timer is set to 10 ms in polling
\* mode and to kTimerInterval = 100 ms in hook mode
LiveTimerDts == IF tracking_mode_ = "kPolling" THEN {Ms(10)} ELSE {Ms(100)}

\* the controller after a handler that read the clock at t
LiveSetCursorState(cs, t) ==
  /\ SetCursorState([cs EXCEPT !.enlarge_start_time_ = 0])
  /\ now' = IF cs.is_enlarged_
            THEN Min(t - cs.enlarge_start_time_, LiveHorizon)
            ELSE 0

\* ShakeToFindCursor::MouseProc, ShouldEnlargeCursor answering should_enlarge
LiveMouseProc(should_enlarge, d, host) ==
  /\ tracking_mode_ = "kHook"
  /\ ret' = should_enlarge
  /\ LiveSetCursorState(ProcessMouseMove(CS, should_enlarge, now + d, host),
                        now + d)
  /\ op' = "MouseProc"
  /\ UNCHANGED <<tracking_mode_, detector, calls, samples, teardowns, scaler, runner>>

\* ShakeToFindCursor::WindowProc, case WM_TIMER
LiveWmTimer(should_enlarge, d, host) ==
  /\ IF tracking_mode_ = "kPolling"
     THEN /\ ret' = should_enlarge
          /\ LiveSetCursorState(
               RestoreIfNeeded(
                 ProcessMouseMove(CS, should_enlarge, now + d, host),
                 now + d, host),
               now + d)
     ELSE /\ ret' = FALSE
          /\ LiveSetCursorState(RestoreIfNeeded(CS, now + d, host), now + d)
  /\ op' = "WM_TIMER"
  /\ UNCHANGED <<tracking_mode_, detector, calls, samples, teardowns, scaler, runner>>

\* a timer event is delivered
LiveTick ==
  \E should_enlarge \in BOOLEAN, d \in LiveTimerDts, host \in HostOutcomes :
    LiveWmTimer(should_enlarge, d, host)

\* a timer event is delivered and the host refuses nothing during it
LiveTickAccepted ==
  \E should_enlarge \in BOOLEAN, d \in LiveTimerDts :
    LiveWmTimer(should_enlarge, d, [copy |-> TRUE, set |-> TRUE])

NextLive ==
  \/ \E should_enlarge \in BOOLEAN, d \in LiveMouseDts, host \in HostOutcomes :
       LiveMouseProc(should_enlarge, d, host)
  \/ LiveTick

\* timer events keep being delivered, and the host does not refuse for ever
SpecLive ==
  /\ Init
  /\ [][NextLive]_vars
  /\ WF_vars(LiveTick)
  /\ SF_vars(LiveTickAccepted)

----------------------------------------------------------------------------
(* Properties of the controller *)

\* the host calls of one kind in a handler's log
HostCalls(log, api, arg) ==
  {i \in 1..Len(log) : log[i].api = api /\ log[i].arg = arg}

\* Enlarge went past its is_enlarged_ test: it asked for a copy to install
InstallAttempts(log) == Cardinality(HostCalls(log, "CopyCursor", "large"))

\* RestoreOriginalCursor ran: it asked for a copy of the original to install
RestoreAttempts(log) == Cardinality(HostCalls(log, "CopyCursor", "original"))

\* SetSystemCursor calls that hand the host a copy of the original
RestoreCommands(log) == Cardinality(HostCalls(log, "SetSystemCursor", "original"))

Accepted(log, api, arg) == \E i \in HostCalls(log, api, arg) : log[i].ok

EventStep(o) == o \in {"MouseProc", "WM_TIMER"}

\* C6: a positive classification that arrives while the controller is
\* enlarged leaves enlarge_start_time_ as it was and makes no install call.
C6_RetriggerIsNoOp ==
  [][(is_enlarged_ /\ EventStep(op') /\ ret')
       => (enlarge_start_time_' = enlarge_start_time_
           /\ InstallAttempts(host_log') = 0
           /\ ~Accepted(host_log', "SetSystemCursor", "large"))]_vars

\* a positive classification later than the install, within the dwell
C6_Witness ==
  /\ EventStep(op)
  /\ ret
  /\ is_enlarged_
  /\ now > enlarge_start_time_
  /\ DurationCastMs(now - enlarge_start_time_) <= kEnlargeDurationMs
  /\ host_log = <<>>

\* C7 as claimed: a timer tick requests the restore exactly when the
\* controller is enlarged and now - since is more than 500 ms, and then it
\* issues one restore and the controller is Normal; otherwise it stays as
\* it was.
C7_TickRestoresAfter500ms ==
  [][op' = "WM_TIMER" =>
       LET due == is_enlarged_
                  /\ now' - enlarge_start_time_ > Ms(kEnlargeDurationMs)
       IN /\ RestoreAttempts(host_log') = (IF due THEN 1 ELSE 0)
          /\ due => (RestoreCommands(host_log') = 1 /\ ~is_enlarged_')
          /\ (is_enlarged_ /\ ~due) => is_enlarged_']_vars

\* C7: a timer tick runs RestoreOriginalCursor, once, exactly when the
\* controller is enlarged and the elapsed time in whole milliseconds (now -
\* since, truncated) is more than 500; it makes at most one SetSystemCursor
\* call for the original, and the controller becomes Normal exactly when the
\* host accepts that call. A tick that finds the controller enlarged and the
\* whole milliseconds at 500 or less leaves it enlarged with since and
\* the system cursor unchanged; a tick in Normal makes no restore call.
C7_TickRestore ==
  [][op' = "WM_TIMER" =>
       LET due == is_enlarged_
                  /\ DurationCastMs(now' - enlarge_start_time_) > kEnlargeDurationMs
       IN /\ RestoreAttempts(host_log') = (IF due THEN 1 ELSE 0)
          /\ RestoreCommands(host_log') <= 1
          /\ due => (is_enlarged_' <=> ~Accepted(host_log', "SetSystemCursor", "original"))
          /\ (is_enlarged_ /\ ~due) =>
               /\ is_enlarged_'
               /\ enlarge_start_time_' = enlarge_start_time_
               /\ system_cursor' = system_cursor]_vars

\* a tick at 501 ms or later has handed the original back
C7_Witness ==
  /\ op = "WM_TIMER"
  /\ ~is_enlarged_
  /\ Accepted(host_log, "SetSystemCursor", "original")
  /\ system_cursor = "original"
  /\ DurationCastMs(now - enlarge_start_time_) > kEnlargeDurationMs

\* the dwell has run out and the controller is still enlarged
RestorePending ==
  /\ is_enlarged_
  /\ DurationCastMs(now - enlarge_start_time_) > kEnlargeDurationMs

\* RestoreOriginalCursor ran and the host refused the copy or the install
RestoreRefused(log) ==
  /\ RestoreAttempts(log) > 0
  /\ ~Accepted(log, "SetSystemCursor", "original")

\* C8: a restore the host refuses at a tick leaves the controller enlarged
\* with since unchanged; while a restore is pending every tick runs
\* RestoreOriginalCursor again, and no event other than an accepted restore
\* ends the pending state.
C8_FailedRestoreRetried ==
  [][EventStep(op') =>
       /\ (op' = "WM_TIMER" /\ RestoreRefused(host_log'))
            => (is_enlarged_' /\ enlarge_start_time_' = enlarge_start_time_)
       /\ (RestorePending /\ op' = "WM_TIMER") => RestoreAttempts(host_log') = 1
       /\ RestorePending
            => (RestorePending' \/ Accepted(host_log', "SetSystemCursor", "original"))]_vars

\* a tick has just been refused and the restore is still pending
C8_Witness ==
  /\ op = "WM_TIMER"
  /\ RestoreRefused(host_log)
  /\ RestorePending

\* C9 as claimed: teardown requests the restore of the system cursors and
\* the controller is Normal afterwards.
C9_TeardownForcesNormal ==
  op = "~CursorState" =>
    (Len(host_log) > 0
     /\ host_log[1].api = "SystemParametersInfo"
     /\ ~is_enlarged_)

\* C9: teardown, whatever the state, first calls
\* SystemParametersInfo(SPI_SETCURSORS); the controller is Normal afterwards
\* if the host accepts the call and keeps is_enlarged_ as it was if the
\* host refuses it.
C9_TeardownRestores ==
  [][op' = "~CursorState" =>
       /\ Len(host_log') > 0
       /\ host_log'[1].api = "SystemParametersInfo"
       /\ host_log'[1].ok => (~is_enlarged_' /\ system_cursor' = "default")
       /\ ~host_log'[1].ok => (is_enlarged_' = is_enlarged_)]_vars

\* teardown ran while enlarged within the dwell, and the host accepted
C9_Witness ==
  /\ op = "~CursorState"
  /\ teardowns = 1
  /\ host_log[1].ok
  /\ ~is_enlarged_
  /\ enlarge_start_time_ > 0
  /\ DurationCastMs(now - enlarge_start_time_) <= kEnlargeDurationMs

SampleStep(o) ==
  o = "MouseProc" \/ (o = "WM_TIMER" /\ tracking_mode_ = "kPolling")

\* the host took the copy of the large cursor / of the original
InstallAccepted(log) == Accepted(log, "SetSystemCursor", "large")

RestoreAccepted(log) == Accepted(log, "SetSystemCursor", "original")

\* C16: a call of ShouldEnlargeCursor that is not rejected appends the new
\* Movement and evicts the oldest when the history is over 10, whether it
\* returns true or false and whether the controller is enlarged or not, and
\* what it returns is DetectShakePattern of the history it leaves: a
\* function of the samples alone.
C16_DetectorIndependent ==
  [][SampleStep(op') =>
       IF DurationCastMs(now' - last_time_) <= 0
       THEN movement_history_' = movement_history_ /\ ret' = FALSE
       ELSE /\ movement_history_' =
                 (IF Len(movement_history_) = kHistorySize
                  THEN Tail(movement_history_) ELSE movement_history_)
                 \o <<[dx |-> last_pos_'.x - last_pos_.x,
                       dy |-> last_pos_'.y - last_pos_.y,
                       dt |-> DurationCastMs(now' - last_time_)]>>
            /\ ret' = DetectShakePattern(movement_history_')]_vars

\* a call returned true while the controller was already enlarged, the
\* window full and sliding
C16_Witness ==
  /\ SampleStep(op)
  /\ ret
  /\ is_enlarged_
  /\ now > enlarge_start_time_
  /\ samples > kHistorySize
  /\ Len(movement_history_) = kHistorySize

\* the step asked for an install and the host did not take it
InstallRefused(log) == InstallAttempts(log) > 0 /\ ~InstallAccepted(log)

\* the copies made in a step, the copies the host took, the copies destroyed
CopiesMade(log) ==
  Cardinality({i \in 1..Len(log) : log[i].api = "CopyCursor" /\ log[i].ok})

CopiesTaken(log) ==
  Cardinality({i \in 1..Len(log) : log[i].api = "SetSystemCursor" /\ log[i].ok})

CopiesDestroyed(log) ==
  Cardinality({i \in 1..Len(log) : log[i].api = "DestroyCursor"})

\* C17: an install the host refuses leaves the controller Normal with
\* enlarge_start_time_ and the system cursor as they were; every positive
\* classification that finds the controller Normal attempts the install, one
\* after a refusal included; and every temporary copy made in a step is
\* taken by the host or destroyed in that step, none stays live.
C17_RefusedInstall ==
  [][EventStep(op') =>
       /\ InstallRefused(host_log') =>
            /\ ~is_enlarged_'
            /\ enlarge_start_time_' = enlarge_start_time_
            /\ system_cursor' = system_cursor
       /\ (SampleStep(op') /\ ret' /\ ~is_enlarged_) => InstallAttempts(host_log') = 1
       /\ CopiesMade(host_log') = CopiesTaken(host_log') + CopiesDestroyed(host_log')
       /\ live_copies' = 0]_vars

\* the host gave the copy and refused to install it: the copy was destroyed
C17_Witness ==
  /\ SampleStep(op)
  /\ ret
  /\ ~is_enlarged_
  /\ host_log = <<Call("CopyCursor", "large", TRUE),
                  Call("SetSystemCursor", "large", FALSE),
                  Call("DestroyCursor", "large", TRUE)>>
  /\ live_copies = 0

\* C18: before teardown, the controller goes from Normal to Enlarged only in
\* a step where ShouldEnlargeCursor returned true and the host took the
\* large cursor, and from Enlarged to Normal only in a timer tick more than
\* 500 ms after enlarge_start_time_ in which the host took the original; an
\* install is accepted only in Normal and a restore only in Enlarged, so the
\* two alternate, the install first.
C18_TransitionCauses ==
  [][EventStep(op') =>
       /\ (~is_enlarged_ /\ is_enlarged_') =>
            /\ SampleStep(op')
            /\ ret'
            /\ InstallAccepted(host_log')
            /\ enlarge_start_time_' = now'
       /\ (is_enlarged_ /\ ~is_enlarged_') =>
            /\ op' = "WM_TIMER"
            /\ now' - enlarge_start_time_ > Ms(kEnlargeDurationMs)
            /\ RestoreAccepted(host_log')
       /\ InstallAccepted(host_log') => (~is_enlarged_ /\ is_enlarged_')
       /\ RestoreAccepted(host_log') => (is_enlarged_ /\ ~is_enlarged_')]_vars

\* a polling tick was the sample step that installed the large cursor
C18_Witness ==
  /\ op = "WM_TIMER"
  /\ tracking_mode_ = "kPolling"
  /\ ret
  /\ InstallAccepted(host_log)
  /\ is_enlarged_
  /\ enlarge_start_time_ = now
  /\ system_cursor = "large"

\* C20 as claimed: in polling mode a tick that installs the large cursor
\* does not restore it in the same tick; a tick that finds the dwell expired
\* while the detector returns true makes no install, issues the restore and
\* ends in Normal; a positive tick in Normal attempts the install, with
\* enlarge_start_time_ the time of the tick when it is accepted.
C20_PollingOrderEndsNormal ==
  [][(op' = "WM_TIMER" /\ tracking_mode_ = "kPolling") =>
       /\ InstallAccepted(host_log') =>
            (RestoreAttempts(host_log') = 0 /\ is_enlarged_')
       /\ (is_enlarged_ /\ ret'
           /\ DurationCastMs(now' - enlarge_start_time_) > kEnlargeDurationMs) =>
            /\ InstallAttempts(host_log') = 0
            /\ RestoreAttempts(host_log') = 1
            /\ ~is_enlarged_'
       /\ (~is_enlarged_ /\ ret') =>
            /\ InstallAttempts(host_log') = 1
            /\ is_enlarged_' => enlarge_start_time_' = now']_vars

\* C20: in polling mode a tick that installs the large cursor does not
\* restore it in the same tick; a tick that finds the dwell expired while
\* the detector returns true makes no install and issues the restore, and
\* ends in Normal when the host accepts the restore, Enlarged when it
\* refuses; a positive tick in Normal attempts the install, with
\* enlarge_start_time_ the time of the tick when it is accepted.
C20_PollingOrder ==
  [][(op' = "WM_TIMER" /\ tracking_mode_ = "kPolling") =>
       /\ InstallAccepted(host_log') =>
            (RestoreAttempts(host_log') = 0 /\ is_enlarged_')
       /\ (is_enlarged_ /\ ret'
           /\ DurationCastMs(now' - enlarge_start_time_) > kEnlargeDurationMs) =>
            /\ InstallAttempts(host_log') = 0
            /\ RestoreAttempts(host_log') = 1
            /\ is_enlarged_' <=> ~RestoreAccepted(host_log')
       /\ (~is_enlarged_ /\ ret') =>
            /\ InstallAttempts(host_log') = 1
            /\ is_enlarged_' => enlarge_start_time_' = now']_vars

\* a polling tick found the dwell expired with the detector answering true,
\* and handed the original back
C20_Witness ==
  /\ op = "WM_TIMER"
  /\ tracking_mode_ = "kPolling"
  /\ ret
  /\ RestoreAccepted(host_log)
  /\ InstallAttempts(host_log) = 0
  /\ ~is_enlarged_

\* C19: whenever the controller is enlarged it is eventually Normal again,
\* timer events being delivered for ever and the host not refusing the
\* restore for ever, whatever classifications arrive in the meantime.
C19_DwellEnds == is_enlarged_ ~> ~is_enlarged_

\* the dwell ran out under positive classifications, the last of them at the
\* very tick that handed the original back
C19_Witness ==
  /\ op = "WM_TIMER"
  /\ ret
  /\ RestoreAccepted(host_log)
  /\ system_cursor = "original"
  /\ ~is_enlarged_
  /\ now = 0

----------------------------------------------------------------------------
(* Run and Stop: the message loop of the main thread, and Stop called from
   the console-control handler thread or, inside the loop, from the window
   procedure.

   One action is one access to running_ or to the message queue. WM_TIMER and
   the mouse hook run the handlers of Spec; they touch neither running_ nor
   the queue and are left out of the dispatch here. *)

\* hwnd_ after Initialize returned true
hwnd_ == "hwnd"

\* everything but the run loop
program == <<tracking_mode_, now, detector, controller, op, ret, host_log,
             calls, samples, teardowns, scaler>>

\* Stop, first statement: running_ = false
StopWrite(caller) ==
  /\ running_' = FALSE
  /\ stop_log' = stop_log \cup {[by |-> caller, run_pc |-> run_pc]}

\* variant: Stop posts nothing
StopPost_None == posted' = posted

\* Stop, second statement: if (hwnd_) PostMessage(hwnd_, WM_QUIT, 0, 0)
StopPost ==
  posted' = IF hwnd_ # "nullptr" THEN Append(posted, "WM_QUIT") ELSE posted

\* Run: running_ = true
RunEnter ==
  /\ run_pc = "main"
  /\ running_' = TRUE
  /\ run_pc' = "while"
  /\ UNCHANGED <<msg, posted, timer_due, stop_pc, ctrl_events, tray_clicks,
                 stop_log, program>>

\* Run: while (running_)
RunWhile ==
  /\ run_pc = "while"
  /\ run_pc' = IF running_ THEN "PeekMessage" ELSE "returned"
  /\ UNCHANGED <<running_, msg, posted, timer_due, stop_pc, ctrl_events,
                 tray_clicks, stop_log, program>>

\* Run: while (PeekMessage(&msg, nullptr, 0, 0, PM_REMOVE)); posted messages
\* come before WM_TIMER
RunPeekMessage ==
  /\ run_pc = "PeekMessage"
  /\ IF posted # <<>>
     THEN /\ msg' = Head(posted)
          /\ posted' = Tail(posted)
          /\ run_pc' = "retrieved"
          /\ UNCHANGED timer_due
     ELSE IF timer_due
          THEN /\ msg' = "WM_TIMER"
               /\ timer_due' = FALSE
               /\ run_pc' = "retrieved"
               /\ UNCHANGED posted
          ELSE /\ run_pc' = "Sleep"
               /\ UNCHANGED <<msg, posted, timer_due>>
  /\ UNCHANGED <<running_, stop_pc, ctrl_events, tray_clicks, stop_log, program>>

\* Run: if (msg.message == WM_QUIT) { running_ = false; break; }
RunRetrieved ==
  /\ run_pc = "retrieved"
  /\ IF msg = "WM_QUIT"
     THEN running_' = FALSE /\ run_pc' = "Sleep"
     ELSE run_pc' = "DispatchMessage" /\ UNCHANGED running_
  /\ UNCHANGED <<msg, posted, timer_due, stop_pc, ctrl_events, tray_clicks,
                 stop_log, program>>

\* Run: DispatchMessage(&msg), WindowProc up to its first access to running_
\* or the queue. kTrayIconMessage: the context menu, where the user picks
\* Exit (WM_COMMAND kMenuExitId is posted) or dismisses it. WM_COMMAND:
\* instance->Stop().
RunDispatchMessage ==
  /\ run_pc = "DispatchMessage"
  /\ \/ /\ msg = "WM_TIMER"
        /\ run_pc' = "PeekMessage"
        /\ UNCHANGED posted
     \/ /\ msg = "kTrayIconMessage"
        /\ \E exit \in BOOLEAN :
             posted' = IF exit THEN Append(posted, "WM_COMMAND") ELSE posted
        /\ run_pc' = "PeekMessage"
     \/ /\ msg = "WM_COMMAND"
        /\ run_pc' = "Stop"
        /\ UNCHANGED posted
  /\ UNCHANGED <<running_, msg, timer_due, stop_pc, ctrl_events, tray_clicks,
                 stop_log, program>>

\* WindowProc, WM_COMMAND: Stop, running_ = false
WndStopWrite ==
  /\ run_pc = "Stop"
  /\ StopWrite("WindowProc")
  /\ run_pc' = "PostMessage"
  /\ UNCHANGED <<msg, posted, timer_due, stop_pc, ctrl_events, tray_clicks,
                 program>>

\* WindowProc, WM_COMMAND: Stop, PostMessage; then back in Run's inner loop
WndStopPost ==
  /\ run_pc = "PostMessage"
  /\ StopPost
  /\ run_pc' = "PeekMessage"
  /\ UNCHANGED <<running_, msg, timer_due, stop_pc, ctrl_events, tray_clicks,
                 stop_log, program>>

\* Run: Sleep(1)
RunSleep ==
  /\ run_pc = "Sleep"
  /\ run_pc' = "while"
  /\ UNCHANGED <<running_, msg, posted, timer_due, stop_pc, ctrl_events,
                 tray_clicks, stop_log, program>>

\* the main thread
MainThread ==
  \/ RunEnter
  \/ RunWhile
  \/ RunPeekMessage
  \/ RunRetrieved
  \/ RunDispatchMessage
  \/ WndStopWrite
  \/ WndStopPost
  \/ RunSleep

\* ConsoleCtrlHandler(CTRL_C_EVENT or CTRL_BREAK_EVENT) starts on its thread
CtrlEvent ==
  /\ stop_pc = "idle"
  /\ run_pc # "returned"
  /\ ctrl_events < MaxCtrlEvents
  /\ ctrl_events' = ctrl_events + 1
  /\ stop_pc' = "Stop"
  /\ UNCHANGED <<running_, run_pc, msg, posted, timer_due, tray_clicks,
                 stop_log, program>>

\* ConsoleCtrlHandler: GetInstance().Stop(), running_ = false
CtrlStopWrite ==
  /\ stop_pc = "Stop"
  /\ StopWrite("ConsoleCtrlHandler")
  /\ stop_pc' = "PostMessage"
  /\ UNCHANGED <<run_pc, msg, posted, timer_due, ctrl_events, tray_clicks,
                 program>>

\* ConsoleCtrlHandler: GetInstance().Stop(), PostMessage; return TRUE
CtrlStopPost ==
  /\ stop_pc = "PostMessage"
  /\ StopPost
  /\ stop_pc' = "idle"
  /\ UNCHANGED <<running_, run_pc, msg, timer_due, ctrl_events, tray_clicks,
                 stop_log, program>>

\* the console-control handler thread, once started
CtrlThread == CtrlStopWrite \/ CtrlStopPost

\* the timer set by Initialize elapses
TimerElapses ==
  /\ ~timer_due
  /\ run_pc # "returned"
  /\ timer_due' = TRUE
  /\ UNCHANGED <<running_, run_pc, msg, posted, stop_pc, ctrl_events,
                 tray_clicks, stop_log, program>>

\* the shell posts kTrayIconMessage (WM_RBUTTONUP on the tray icon)
TrayClick ==
  /\ tray_clicks < MaxTrayClicks
  /\ run_pc # "returned"
  /\ tray_clicks' = tray_clicks + 1
  /\ posted' = Append(posted, "kTrayIconMessage")
  /\ UNCHANGED <<running_, run_pc, msg, timer_due, stop_pc, ctrl_events,
                 stop_log, program>>

NextStop ==
  \/ MainThread
  \/ CtrlEvent
  \/ CtrlThread
  \/ TimerElapses
  \/ TrayClick

\* both threads keep running; nothing is assumed of the events
SpecStop ==
  /\ Init
  /\ [][NextStop]_vars
  /\ WF_vars(MainThread)
  /\ WF_vars(CtrlThread)

----------------------------------------------------------------------------
(* Properties of Run and Stop *)

\* C21: once Stop has been called, from the console-control handler thread
\* or from the window procedure, before or after Run wrote running_ = true,
\* Run eventually returns, however the two accesses of Stop interleave with
\* those of Run.
C21_StopEndsRun == (stop_log # {}) ~> (run_pc = "returned")

\* Run returned on the WM_QUIT of a Stop that wrote running_ = false before
\* Run wrote running_ = true, and no other Stop was called
C21_Witness ==
  /\ run_pc = "returned"
  /\ msg = "WM_QUIT"
  /\ stop_log = {[by |-> "ConsoleCtrlHandler", run_pc |-> "main"]}
  /\ stop_pc = "idle"

====
